---- MODULE Spec2Model ----
(***************************************************************************)
(* A model of helper.py of mdgru: the multi-dimensional counter            *)
(* (counter_generator), the filter <-> block-circulant index transforms    *)
(* (np_arr_forward, np_arr_backward), the seed matrix of _initializer_Q,   *)
(* the initializer callable (get_pseudo_orthogonal_uniform) and the        *)
(* stride dispatch of convolution_helper_padding_same.                     *)
(*                                                                         *)
(* Conventions.  An n-dimensional numpy array is a record                  *)
(* [shape |-> <<d1,...,dr>>, data |-> <<...>>] whose data is the row-major *)
(* (C order) flattening; indices are 0-based as in numpy and data[f + 1]   *)
(* holds the element with flat index f.  A stride is a record              *)
(* [num, den]: the rational num/den, with den = 0 standing for None.       *)
(* Floating-point rounding error is not modelled: 1/s and 1/s*o are the    *)
(* exact rationals.                                                        *)
(***************************************************************************)
EXTENDS Integers, Sequences, FiniteSets, TLC

VARIABLES
    \* counter_generator
    maxim, count, cg_pc, yielded,
    \* np_arr_forward / np_arr_backward round trip
    tr_pc, tr_dims, filt, matrix, back,
    \* _initializer_Q
    q_pc, q_dims, q_draws, to, arr, skewsymm,
    \* get_pseudo_orthogonal_uniform
    in_pc, shape, dtype, rng, in_res,
    \* convolution_helper_padding_same
    cv_pc, inp_shape, filter_shape, strides, cv_res

cg_vars == <<maxim, count, cg_pc, yielded>>
tr_vars == <<tr_pc, tr_dims, filt, matrix, back>>
q_vars  == <<q_pc, q_dims, q_draws, to, arr, skewsymm>>
in_vars == <<in_pc, shape, dtype, rng, in_res>>
cv_vars == <<cv_pc, inp_shape, filter_shape, strides, cv_res>>
vars == <<cg_vars, tr_vars, q_vars, in_vars, cv_vars>>

-----------------------------------------------------------------------------
(* Bounds of the model *)

\* longest maxim vector handed to counter_generator
MaxLen == 3
\* largest entry of maxim
MaxMaxim == 3

-----------------------------------------------------------------------------
(* The components not under study in a specification rest in these values *)

CgIdle == maxim = <<>> /\ count = <<>> /\ cg_pc = "idle" /\ yielded = <<>>
TrIdle == tr_pc = "idle" /\ tr_dims = <<>> /\ filt = <<>> /\ matrix = <<>> /\ back = <<>>
QIdle  == q_pc = "idle" /\ q_dims = <<>> /\ q_draws = <<>> /\ to = <<>> /\ arr = <<>> /\ skewsymm = <<>>
InIdle == in_pc = "idle" /\ shape = <<>> /\ dtype = "none" /\ rng = <<>> /\ in_res = <<>>
CvIdle == cv_pc = "idle" /\ inp_shape = <<>> /\ filter_shape = <<>> /\ strides = <<>> /\ cv_res = <<>>

-----------------------------------------------------------------------------
(* Sequences of bounded length *)

SeqsUpTo(S, lo, hi) == UNION {[1..len -> S] : len \in lo..hi}

RECURSIVE Prod(_)
Prod(s) == IF s = <<>> THEN 1 ELSE s[1] * Prod(Tail(s))

-----------------------------------------------------------------------------
(* counter_generator *)

\* np.zeros(maxim.shape)
Zeros(len) == [i \in 1..len |-> 0]

\* arr = (maxim - count) > 1
CounterArrOffByOne(m, c) == [i \in 1..Len(m) |-> (m[i] - c[i]) >= 1]
CounterArr(m, c) == [i \in 1..Len(m) |-> (m[i] - c[i]) > 1]

\* arr.tolist()[::-1].index(True) raises ValueError when no entry is True
HasTrue(a) == \E i \in 1..Len(a) : a[i]

\* lind = len(arr) - 1 - arr.tolist()[::-1].index(True): the last True entry
\* (as a 1-based position)
Lind(a) == CHOOSE i \in 1..Len(a) : a[i] /\ \A j \in (i + 1)..Len(a) : ~a[j]

\* count[lind] += 1; count[lind + 1:] = 0
BumpNoReset(c, lind) == [i \in 1..Len(c) |-> IF i = lind THEN c[i] + 1 ELSE c[i]]
Bump(c, lind) ==
    [i \in 1..Len(c) |-> IF i < lind THEN c[i] ELSE IF i = lind THEN c[i] + 1 ELSE 0]

\* the generator runs to its first yield
CgFirst ==
    /\ cg_pc = "start"
    /\ count' = Zeros(Len(maxim))
    /\ yielded' = <<count'>>
    /\ cg_pc' = "loop"
    /\ UNCHANGED maxim

\* one pass of the while loop, up to the next yield
CgNext ==
    /\ cg_pc = "loop"
    /\ HasTrue(CounterArr(maxim, count))
    /\ count' = Bump(count, Lind(CounterArr(maxim, count)))
    /\ yielded' = Append(yielded, count')
    /\ UNCHANGED <<maxim, cg_pc>>

\* index(True) raises ValueError, which ends the generator
CgStop ==
    /\ cg_pc = "loop"
    /\ ~HasTrue(CounterArr(maxim, count))
    /\ cg_pc' = "done"
    /\ UNCHANGED <<maxim, count, yielded>>

InitCounter ==
    /\ maxim \in SeqsUpTo((0 - 1)..MaxMaxim, 0, MaxLen)
    /\ count = <<>>
    /\ cg_pc = "start"
    /\ yielded = <<>>
    /\ TrIdle /\ QIdle /\ InIdle /\ CvIdle

NextCounter ==
    \/ CgFirst /\ UNCHANGED <<tr_vars, q_vars, in_vars, cv_vars>>
    \/ CgNext /\ UNCHANGED <<tr_vars, q_vars, in_vars, cv_vars>>
    \/ CgStop /\ UNCHANGED <<tr_vars, q_vars, in_vars, cv_vars>>

SpecCounter == InitCounter /\ [][NextCounter]_vars

-----------------------------------------------------------------------------
(* Mixed-radix arithmetic, used to state the expected enumeration *)

\* the multi-index (0-based entries) of the flat row-major index f in a box of
\* the given shape: the last dimension varies fastest
RECURSIVE Unravel(_, _)
Unravel(f, s) ==
    IF s = <<>> THEN <<>>
    ELSE LET inner == Prod(Tail(s))
         IN  <<f \div inner>> \o Unravel(f % inner, Tail(s))

\* the flat row-major index of a multi-index
RECURSIVE Ravel(_, _)
Ravel(mi, s) ==
    IF s = <<>> THEN 0
    ELSE mi[1] * Prod(Tail(s)) + Ravel(Tail(mi), Tail(s))

\* strict lexicographic order on vectors of one length
LexLess(u, v) ==
    \E i \in 1..Len(u) : u[i] < v[i] /\ \A j \in 1..(i - 1) : u[j] = v[j]

AllAtLeastOne(m) == \A i \in 1..Len(m) : m[i] >= 1

\* the odometer enumeration of the box with per-dimension sizes s
Odometer(s) == [k \in 1..Prod(s) |-> Unravel(k - 1, s)]

-----------------------------------------------------------------------------
(* Claims about counter_generator *)

\* C1 (as stated in the specification): for a maxim with all entries >= 1 the
\* exhausted generator has yielded exactly the vectors v with
\* 0 <= v[i] <= maxim[i], in odometer order, prod(maxim[i] + 1) of them.
C1_Original ==
    (cg_pc = "done" /\ AllAtLeastOne(maxim))
        => yielded = Odometer([i \in 1..Len(maxim) |-> maxim[i] + 1])

\* C1 (amended): for a maxim with all entries >= 1 the exhausted generator has
\* yielded exactly the vectors v with 0 <= v[i] <= maxim[i] - 1 (maxim[i] is
\* the number of iterations of dimension i, an exclusive upper bound), each
\* exactly once, in odometer order with the last dimension varying fastest:
\* prod(maxim[i]) vectors.
C1_ExclusiveBox ==
    (cg_pc = "done" /\ AllAtLeastOne(maxim))
        => /\ Len(yielded) = Prod(maxim)
           /\ yielded = Odometer(maxim)
           /\ \A k \in 1..Len(yielded) : \A i \in 1..Len(maxim) :
                  0 <= yielded[k][i] /\ yielded[k][i] <= maxim[i] - 1

\* maxim = [2,3] is exhausted after the six vectors [0,0] .. [1,2]
C1_Witness ==
    /\ cg_pc = "done"
    /\ maxim = <<2, 3>>
    /\ yielded = << <<0,0>>, <<0,1>>, <<0,2>>, <<1,0>>, <<1,1>>, <<1,2>> >>

\* vector v follows vector u by one odometer step: one dimension is
\* incremented by 1, the dimensions after it are 0, those before it unchanged
OdometerStep(u, v) ==
    \E d \in 1..Len(u) :
        /\ v[d] = u[d] + 1
        /\ \A j \in 1..(d - 1) : v[j] = u[j]
        /\ \A j \in (d + 1)..Len(u) : v[j] = 0

\* the number of vectors of the box that maxim describes (an entry <= 1
\* contributes one value)
BoxSize(m) == Prod([i \in 1..Len(m) |-> IF m[i] > 1 THEN m[i] ELSE 1])

\* C9: the yielded sequence starts with the all-zero vector, each later vector
\* is one odometer step after the one before it, the sequence is strictly
\* increasing in lexicographic order (so without repetition), and it never
\* grows beyond the size of the box, so the generator ends.
C9_OdometerSteps ==
    /\ cg_pc \in {"loop", "done"} =>
           /\ Len(yielded) >= 1
           /\ yielded[1] = [i \in 1..Len(maxim) |-> 0]
           /\ yielded[Len(yielded)] = count
    /\ \A k \in 1..(Len(yielded) - 1) :
           /\ OdometerStep(yielded[k], yielded[k + 1])
           /\ LexLess(yielded[k], yielded[k + 1])
    /\ Len(yielded) <= BoxSize(maxim)
    /\ cg_pc = "done" => Len(yielded) = BoxSize(maxim)

\* a carry has happened: a dimension was incremented and a later one reset
C9_Witness ==
    /\ cg_pc = "done"
    /\ Len(maxim) = 3
    /\ \E k \in 1..(Len(yielded) - 1) :
           yielded[k][3] = 2 /\ yielded[k + 1][3] = 0 /\ yielded[k + 1][2] = yielded[k][2] + 1

-----------------------------------------------------------------------------
(* numpy arrays: reshape, transpose, indexing *)

\* element of array A at a 0-based multi-index
NdAt(A, mi) == A.data[Ravel(mi, A.shape) + 1]

\* ndarray.reshape(s): the flat data is kept, the shape replaced
NdReshape(A, s) == [shape |-> s, data |-> A.data]

\* ndarray.transpose(perm), perm 0-based: axis i of the result is axis perm[i]
\* of A
NdTranspose(A, perm) ==
    LET r == Len(perm)
        newshape == [i \in 1..r |-> A.shape[perm[i] + 1]]
        src(m) == [j \in 1..r |-> m[CHOOSE i \in 1..r : perm[i] + 1 = j]]
    IN  [shape |-> newshape,
         data  |-> [f \in 1..Prod(newshape) |-> NdAt(A, src(Unravel(f - 1, newshape)))]]

\* a negative index i addresses element i + dim
WrapIndex(i, dim) == IF i < 0 THEN i + dim ELSE i

\* filt[a + b, c + d, n1, n2] with
\* a, b, c, d, n1, n2 = np.ogrid[0:k1, 0:-k1:-1, 0:k2, 0:-k2:-1, 0:n, 0:n]:
\* broadcast to shape (k1, k1, k2, k2, n, n); b and d hold 0, -1, -2, ...
OgridGather(f, n, k1, k2) ==
    LET gshape == <<k1, k1, k2, k2, n, n>>
    IN  [shape |-> gshape,
         data  |-> [x \in 1..Prod(gshape) |->
                      LET m == Unravel(x - 1, gshape)
                      IN  NdAt(f, <<WrapIndex(m[1] + (0 - m[2]), k1),
                                    WrapIndex(m[3] + (0 - m[4]), k2),
                                    m[5], m[6]>>)]]

\* np_arr_forward: filter (k1, k2, n, n) -> matrix (k1*k2*n, k1*k2*n)
np_arr_forward(f, n, k1, k2) ==
    NdReshape(
        NdTranspose(
            NdReshape(
                NdTranspose(OgridGather(f, n, k1, k2), <<0, 2, 1, 3, 4, 5>>),
                <<k1 * k1, k2 * k2, n, n>>),
            <<2, 0, 3, 1>>),
        <<k1 * k2 * n, k1 * k2 * n>>)

\* A[:, 0, :, :] of a rank-4 array
SliceSecondAxisZero(A) ==
    LET sshape == <<A.shape[1], A.shape[3], A.shape[4]>>
    IN  [shape |-> sshape,
         data  |-> [x \in 1..Prod(sshape) |->
                      LET m == Unravel(x - 1, sshape)
                      IN  NdAt(A, <<m[1], 0, m[2], m[3]>>)]]

\* np_arr_backward: matrix (k1*k2*n, k1*k2*n) -> filter (k1, k2, n, n)
np_arr_backward(mat, n, k1, k2) ==
    NdReshape(
        SliceSecondAxisZero(
            NdTranspose(NdReshape(mat, <<n, k1 * k2, n, k1 * k2>>), <<1, 3, 0, 2>>)),
        <<k1, k2, n, n>>)

-----------------------------------------------------------------------------
(* Round trip of the index transforms *)

\* largest spatial filter size k1, k2 of the round trip
MaxK == 3
\* largest channel count n of the round trip
MaxN == 2

\* the filter whose entry at flat position f is f: all entries differ
LabelledFilter(k1, k2, n) ==
    [shape |-> <<k1, k2, n, n>>, data |-> [x \in 1..(k1 * k2 * n * n) |-> x - 1]]

\* the filter that is 1 at flat position pos and 0 elsewhere
OneHotFilter(k1, k2, n, pos) ==
    [shape |-> <<k1, k2, n, n>>,
     data  |-> [x \in 1..(k1 * k2 * n * n) |-> IF x = pos THEN 1 ELSE 0]]

FilterSamples(k1, k2, n) ==
    {LabelledFilter(k1, k2, n)}
        \cup {OneHotFilter(k1, k2, n, pos) : pos \in 1..(k1 * k2 * n * n)}

TrForward ==
    /\ tr_pc = "start"
    /\ matrix' = np_arr_forward(filt, tr_dims.n, tr_dims.k1, tr_dims.k2)
    /\ tr_pc' = "forward"
    /\ UNCHANGED <<tr_dims, filt, back>>

TrBackward ==
    /\ tr_pc = "forward"
    /\ back' = np_arr_backward(matrix, tr_dims.n, tr_dims.k1, tr_dims.k2)
    /\ tr_pc' = "done"
    /\ UNCHANGED <<tr_dims, filt, matrix>>

InitTransform ==
    /\ tr_pc = "start"
    /\ tr_dims \in [k1 : 1..MaxK, k2 : 1..MaxK, n : 1..MaxN]
    /\ filt \in FilterSamples(tr_dims.k1, tr_dims.k2, tr_dims.n)
    /\ matrix = <<>>
    /\ back = <<>>
    /\ CgIdle /\ QIdle /\ InIdle /\ CvIdle

NextTransform ==
    \/ TrForward /\ UNCHANGED <<cg_vars, q_vars, in_vars, cv_vars>>
    \/ TrBackward /\ UNCHANGED <<cg_vars, q_vars, in_vars, cv_vars>>

SpecTransform == InitTransform /\ [][NextTransform]_vars

\* C2: backward(forward(F)) equals F at every position, for every k1, k2, n
\* (k1 # k2 together with n > 1 included).
C2_RoundTrip ==
    tr_pc = "done" => back = filt

\* the round trip restricted to the shapes on which the two reshapes agree
\* with the block layout: k1 = k2, or a single channel
RoundTripSquareOrSingle ==
    (tr_pc = "done" /\ (tr_dims.k1 = tr_dims.k2 \/ tr_dims.n = 1)) => back = filt

\* the matrix of forward is the block-circulant layout: row p*k1*k2 + a*k2 + c,
\* column q*k1*k2 + b*k2 + d holds F[(a - b) mod k1, (c - d) mod k2, p, q]
ForwardIsBlockCirculant ==
    tr_pc \in {"forward", "done"} =>
        LET k1 == tr_dims.k1
            k2 == tr_dims.k2
            n  == tr_dims.n
        IN  \A a \in 0..(k1 - 1), b \in 0..(k1 - 1), c \in 0..(k2 - 1), d \in 0..(k2 - 1),
               p \in 0..(n - 1), q \in 0..(n - 1) :
                NdAt(matrix, <<p * k1 * k2 + a * k2 + c, q * k1 * k2 + b * k2 + d>>)
                    = NdAt(filt, <<(a - b) % k1, (c - d) % k2, p, q>>)

ForwardIsBlockCirculantSquareOrSingle ==
    (tr_dims.k1 = tr_dims.k2 \/ tr_dims.n = 1) => ForwardIsBlockCirculant

-----------------------------------------------------------------------------
(* _initializer_Q: the circulant seed matrix *)

\* largest spatial filter size k1, k2 of the seed matrix
MaxKQ == 3
\* most entries k1 * k2 of the drawn vector
MaxCells == 6
\* the draws np.random.random(k1 * k2) - 0.5 lie in [-0.5, 0.5); they are
\* modelled by the integers -MaxDraw .. MaxDraw, in units of 0.5 / (MaxDraw + 1)
MaxDraw == 1
DrawVals == (0 - MaxDraw)..MaxDraw

\* row 0 of a matrix: bc[0, :]
FirstRow(A) == [i \in 1..A.shape[2] |-> NdAt(A, <<0, i - 1>>)]

\* a = np.arange(k1 * k2).reshape([k1, k2, 1, 1]);
\* bc = np_arr_forward(a, 1, k1, k2); to = bc[0, :]
MirrorIndex(k1, k2) == FirstRow(np_arr_forward(LabelledFilter(k1, k2, 1), 1, k1, k2))

\* arr = [arr[i] if i < to[i] else -arr[to[i]] for i in range(k1 * k2)];
\* arr[0] = 0.  Positions are 0-based in the code, 1-based in the sequences.
SignAdjust(draws, t) ==
    [x \in 1..Len(draws) |->
        IF x = 1 THEN 0
        ELSE IF (x - 1) < t[x] THEN draws[x] ELSE 0 - draws[t[x] + 1]]

\* skewsymm = np_arr_forward(arr.reshape(k1, k2, 1, 1), 1, k1, k2)
SeedMatrix(a, k1, k2) ==
    np_arr_forward([shape |-> <<k1, k2, 1, 1>>, data |-> a], 1, k1, k2)

\* The call up to skewsymm; q_draws is the vector drawn from the process-wide
\* generator (the first value of the code's arr).  The value returned, the Cayley transform
\* inv(I + skewsymm) * (I - skewsymm), is a real matrix computed from skewsymm
\* alone and is not represented.
initializer_Q ==
    /\ q_pc = "start"
    /\ to' = MirrorIndex(q_dims.k1, q_dims.k2)
    /\ q_draws' \in [1..(q_dims.k1 * q_dims.k2) -> DrawVals]
    /\ arr' = SignAdjust(q_draws', to')
    /\ skewsymm' = SeedMatrix(arr', q_dims.k1, q_dims.k2)
    /\ q_pc' = "done"
    /\ UNCHANGED q_dims

InitSeed ==
    /\ q_pc = "start"
    /\ q_dims \in {d \in [k1 : 1..MaxKQ, k2 : 1..MaxKQ] : d.k1 * d.k2 <= MaxCells}
    /\ q_draws = <<>>
    /\ to = <<>>
    /\ arr = <<>>
    /\ skewsymm = <<>>
    /\ CgIdle /\ TrIdle /\ InIdle /\ CvIdle

NextSeed ==
    \/ initializer_Q /\ UNCHANGED <<cg_vars, tr_vars, in_vars, cv_vars>>

SpecSeed == InitSeed /\ [][NextSeed]_vars

SkewSymmetric(S) ==
    \A i \in 0..(S.shape[1] - 1), j \in 0..(S.shape[2] - 1) :
        NdAt(S, <<i, j>>) = 0 - NdAt(S, <<j, i>>)

ZeroDiagonal(S) == \A i \in 0..(S.shape[1] - 1) : NdAt(S, <<i, i>>) = 0

\* C3: for every k1, k2 (odd or even) and every vector of draws the seed matrix
\* is skew-symmetric with a zero diagonal, and every position i # 0 that is
\* its own mirror (to[i] = i) holds 0.
C3_SkewSymmetric ==
    q_pc = "done" =>
        /\ SkewSymmetric(skewsymm)
        /\ ZeroDiagonal(skewsymm)
        /\ \A x \in 2..Len(arr) : to[x] = x - 1 => arr[x] = 0

\* what the code does guarantee: a zero diagonal for every k1, k2, and
\* skew-symmetry when k1 and k2 are both odd
SeedZeroDiagonal == q_pc = "done" => ZeroDiagonal(skewsymm)
SeedSkewWhenOdd ==
    (q_pc = "done" /\ q_dims.k1 % 2 = 1 /\ q_dims.k2 % 2 = 1) => SkewSymmetric(skewsymm)

-----------------------------------------------------------------------------
(* get_pseudo_orthogonal_block_circulant_initialization *)

\* longest shape handed to the initializer callable
MaxShapeLen == 5
\* largest entry of such a shape
MaxShapeDim == 2

\* the dtypes a caller may request
DTypes == {"float16", "float32", "float64"}

NoArray == [shape |-> <<>>, dtype |-> "none"]

\* Arrays of real numbers are represented by their shape and element type.
\* _initializer_Q(k1, k2): draws k1 * k2 values from the process-wide
\* generator and returns np.float32(...) of a (k1*k2, k1*k2) matrix
InitializerQType(k1, k2) == [shape |-> <<k1 * k2, k1 * k2>>, dtype |-> "float32"]

\* np.float32(np.kron(np.float32(T), Q)) with T of shape (n, n)
KronType(n, Q) == [shape |-> <<n * Q.shape[1], n * Q.shape[2]>>, dtype |-> "float32"]

\* initializer_W(n, k1, k2)
initializer_W(n, k1, k2) ==
    IF n > 1 THEN KronType(n, InitializerQType(k1, k2))
    ELSE [InitializerQType(k1, k2) EXCEPT !.dtype = "float32"]

\* the calls initializer_W makes on the process-wide generator
InitializerWDraws(n, k1, k2) ==
    <<[fn |-> "np.random.random", size |-> k1 * k2]>>
        \o (IF n > 1 THEN <<[fn |-> "special_ortho_group.rvs", size |-> n]>> ELSE <<>>)

\* np_arr_backward on shape and element type: the reshapes need the element
\* counts to agree (numpy raises ValueError otherwise), the element type is kept
BackwardType(M, n, k1, k2) ==
    IF Prod(M.shape) = n * (k1 * k2) * n * (k1 * k2)
    THEN [err |-> "none", value |-> [shape |-> <<k1, k2, n, n>>, dtype |-> M.dtype]]
    ELSE [err |-> "ValueError", value |-> NoArray]

\* if len(shape) != 4 or shape[2] != shape[3] (the second test is evaluated
\* only when the first is false); positions are 1-based here
ShapeUnsupportedRankOnly(sh) == Len(sh) # 4
ShapeUnsupported(sh) == Len(sh) # 4 \/ sh[3] # sh[4]

\* the callable returned by the factory; the dtype argument is not read
get_pseudo_orthogonal_uniform ==
    /\ in_pc = "call"
    /\ IF ShapeUnsupported(shape)
       THEN /\ in_res' = [err |-> "UnsupportedShape", value |-> NoArray]
            /\ rng' = rng
       ELSE /\ in_res' = BackwardType(initializer_W(shape[3], shape[1], shape[2]),
                                      shape[3], shape[1], shape[2])
            /\ rng' = rng \o InitializerWDraws(shape[3], shape[1], shape[2])
    /\ in_pc' = "returned"
    /\ UNCHANGED <<shape, dtype>>

InitInitializer ==
    /\ in_pc = "call"
    /\ shape \in SeqsUpTo(1..MaxShapeDim, 0, MaxShapeLen)
    /\ dtype \in DTypes
    /\ rng = <<>>
    /\ in_res = <<>>
    /\ CgIdle /\ TrIdle /\ QIdle /\ CvIdle

NextInitializer ==
    \/ get_pseudo_orthogonal_uniform /\ UNCHANGED <<cg_vars, tr_vars, q_vars, cv_vars>>

SpecInitializer == InitInitializer /\ [][NextInitializer]_vars

\* C7: the callable fails with the unsupported-shape error exactly when the
\* shape does not have length 4 or shape[2] # shape[3]; on that error nothing
\* has been drawn from the process-wide generator and no array has been built.
C7_UnsupportedShape ==
    in_pc = "returned" =>
        /\ in_res.err = "UnsupportedShape"
               <=> (Len(shape) # 4 \/ (Len(shape) = 4 /\ shape[3] # shape[4]))
        /\ in_res.err = "UnsupportedShape" => (rng = <<>> /\ in_res.value = NoArray)

\* a rank-4 shape with unequal channel counts has been refused
C7_Witness ==
    /\ in_pc = "returned"
    /\ Len(shape) = 4
    /\ shape[3] # shape[4]
    /\ in_res.err = "UnsupportedShape"
    /\ rng = <<>>

\* C8: for a valid shape (k1, k2, n, n) and every requested dtype the result
\* has exactly that shape and the requested element type.
C8_ShapeAndDtype ==
    (in_pc = "returned" /\ Len(shape) = 4 /\ shape[3] = shape[4]) =>
        /\ in_res.err = "none"
        /\ in_res.value.shape = shape
        /\ in_res.value.dtype = dtype

\* what the code does return: the requested shape, always as float32
ResultShapeFloat32 ==
    (in_pc = "returned" /\ Len(shape) = 4 /\ shape[3] = shape[4]) =>
        /\ in_res.err = "none"
        /\ in_res.value.shape = shape
        /\ in_res.value.dtype = "float32"

-----------------------------------------------------------------------------
(* convolution_helper_padding_same *)

\* most spatial dimensions of the input (and entries of strides)
MaxDims == 3
\* longest filter_shape
MaxFilterRank == 6

None == [num |-> 0, den |-> 0]
Stride(a, b) == [num |-> a, den |-> b]
IsNone(s) == s.den = 0

\* the strides a caller passes per dimension: None, 0.5, 0.6, 2/3, 1, 2
StrideVals == {None, Stride(1, 2), Stride(3, 5), Stride(2, 3), Stride(1, 1), Stride(2, 1)}
\* sizes of a spatial dimension of the input, batch sizes, channel counts
SpatialSizes == {1, 3}
BatchSizes == {2, 4}
ChannelCounts == {5, 7}

\* [s for s in strides if s is not None]
NotNone(st) == {st[i] : i \in {j \in 1..Len(st) : ~IsNone(st[j])}}

RatLess(a, b) == a.num * b.den < b.num * a.den
\* np.min / np.max of a non-empty list of strides
MinStride(S) == CHOOSE x \in S : \A y \in S : ~RatLess(y, x)
MaxStride(S) == CHOOSE x \in S : \A y \in S : ~RatLess(x, y)

\* not strides or len([...]) == 0 or np.min([...]) >= 1
StandardPath(st) ==
    \/ Len(st) = 0
    \/ NotNone(st) = {}
    \/ ~RatLess(MinStride(NotNone(st)), Stride(1, 1))

\* np.max([...]) > 1
MixedStridesAtLeastOne(st) == ~RatLess(MaxStride(NotNone(st)), Stride(1, 1))
MixedStrides(st) == RatLess(Stride(1, 1), MaxStride(NotNone(st)))

\* np.round of the rational p / q (p >= 0, q > 0): to the nearest integer,
\* a tie to the even one
RoundHalfEven(p, q) ==
    LET fl == p \div q
        twice == 2 * (p % q)
    IN  IF twice < q THEN fl
        ELSE IF twice > q THEN fl + 1
        ELSE IF fl % 2 = 0 THEN fl ELSE fl + 1

Min(a, b) == IF a < b THEN a ELSE b

\* the spatial entries of the input's static shape: output_shape[1:-1]
Spatial(sh) == SubSeq(sh, 2, Len(sh) - 1)

\* np.int32(np.round([1 / s * o if s is not None else o
\*                    for s, o in zip(strides, output_shape[1:-1])]))
ScaledSpatial(st, sp) ==
    [i \in 1..Min(Len(st), Len(sp)) |->
        IF IsNone(st[i]) THEN sp[i] ELSE RoundHalfEven(st[i].den * sp[i], st[i].num)]

\* output_shape after lines 103-107: batch size, scaled spatial sizes, the
\* last entry of filter_shape
OutputShape(inp, fsh, st) ==
    <<inp[1]>> \o ScaledSpatial(st, Spatial(inp)) \o <<fsh[Len(fsh)]>>

\* int(1 / s) if s < 1 else s; int() truncates.  In this branch no stride
\* is above 1, so a stride that is not below 1 is the integer 1.
UpFactor(s) == IF s.num < s.den THEN s.den \div s.num ELSE s.num \div s.den

\* s < 1 with s = None raises TypeError
HasNone(st) == \E i \in 1..Len(st) : IsNone(st[i])

\* [1] + [int(1 / s) if s < 1 else s for s in strides] + [1]
OpStrides(st) == <<1>> \o [i \in 1..Len(st) |-> UpFactor(st[i])] \o <<1>>

\* list.insert(1, 1)
InsertSecond(sh) == <<sh[1], 1>> \o Tail(sh)

NoResult == [err |-> "none", op |-> "none", output_shape |-> <<>>, strides |-> <<>>,
             ret_shape |-> <<>>]

\* the whole call: which error is raised or which primitive is invoked, with
\* which output_shape and strides, and the shape of the tensor returned
ConvolutionHelper(inp, fsh, st) ==
    IF StandardPath(st)
    THEN [NoResult EXCEPT !.op = "convolution", !.strides = st]
    ELSE IF MixedStrides(st)
    THEN [NoResult EXCEPT !.err = "MixedStride"]
    ELSE LET output_shape == OutputShape(inp, fsh, st)
             r == Len(fsh)
             op == IF r < 5 THEN "conv2d_transpose" ELSE "conv3d_transpose"
         IN  IF r > 5
             THEN [NoResult EXCEPT !.err = "UnsupportedRank"]
             ELSE IF HasNone(st)
             THEN [NoResult EXCEPT !.err = "TypeError"]
             ELSE IF r = 3
             THEN [err |-> "none", op |-> op,
                   output_shape |-> InsertSecond(output_shape),
                   strides |-> OpStrides(<<Stride(1, 1)>> \o st),
                   ret_shape |-> output_shape]
             ELSE [err |-> "none", op |-> op,
                   output_shape |-> output_shape,
                   strides |-> OpStrides(st),
                   ret_shape |-> output_shape]

convolution_helper_padding_same ==
    /\ cv_pc = "call"
    /\ cv_res' = ConvolutionHelper(inp_shape, filter_shape, strides)
    /\ cv_pc' = "returned"
    /\ UNCHANGED <<inp_shape, filter_shape, strides>>

\* filter_shape of rank r: kernel sizes, input channels, output channels.  A
\* filter_shape holds at least the two channel entries.
FilterShapes(cin) ==
    {[i \in 1..r |-> IF i = r THEN cout ELSE IF i = r - 1 THEN cin ELSE 3] :
        r \in 2..MaxFilterRank, cout \in ChannelCounts}

InitConv ==
    /\ cv_pc = "call"
    /\ \E d \in 0..MaxDims :
        /\ strides \in [1..d -> StrideVals]
        /\ \E b \in BatchSizes, sp \in [1..d -> SpatialSizes] :
               inp_shape = <<b>> \o sp \o <<6>>
    /\ filter_shape \in FilterShapes(6)
    /\ cv_res = <<>>
    /\ CgIdle /\ TrIdle /\ QIdle /\ InIdle

NextConv ==
    \/ convolution_helper_padding_same /\ UNCHANGED <<cg_vars, tr_vars, q_vars, in_vars>>

SpecConv == InitConv /\ [][NextConv]_vars

-----------------------------------------------------------------------------
(* Claims about convolution_helper_padding_same *)

Below1(s) == ~IsNone(s) /\ s.num < s.den
Above1(s) == ~IsNone(s) /\ s.num > s.den
SomeBelow1(st) == \E i \in 1..Len(st) : Below1(st[i])
SomeAbove1(st) == \E i \in 1..Len(st) : Above1(st[i])
SomeNotBelow1(st) == \E i \in 1..Len(st) : ~IsNone(st[i]) /\ ~Below1(st[i])

Abs(x) == IF x < 0 THEN 0 - x ELSE x
\* x is an integer nearest to the rational p / q (q > 0)
IsNearest(x, p, q) == 2 * Abs(x * q - p) <= q

\* C4 (as stated in the specification): a stride < 1 together with a stride
\* that is not < 1 (a stride equal to 1 included) fails with the mixed-stride
\* error, and no primitive is invoked.
C4_Original ==
    (cv_pc = "returned" /\ SomeBelow1(strides) /\ SomeNotBelow1(strides)) =>
        (cv_res.err = "MixedStride" /\ cv_res.op = "none")

\* C4 (amended): a stride < 1 together with a stride > 1 fails with the
\* mixed-stride error and no primitive is invoked; strides < 1 together with
\* strides equal to 1 only do not raise that error.
C4_AboveAndBelow ==
    cv_pc = "returned" =>
        /\ (SomeBelow1(strides) /\ SomeAbove1(strides)) =>
               (cv_res.err = "MixedStride" /\ cv_res.op = "none")
        /\ (SomeBelow1(strides) /\ ~SomeAbove1(strides)) => cv_res.err # "MixedStride"

\* strides [2, 0.5] have been refused
C4_Witness ==
    /\ cv_pc = "returned"
    /\ strides = <<Stride(2, 1), Stride(1, 2)>>
    /\ cv_res.err = "MixedStride"
    /\ cv_res.op = "none"

\* the shape C5 expects: batch size, each spatial size divided by its stride
\* and rounded to the nearest integer (unchanged under None), the last entry
\* of filter_shape
IsExpectedShape(out, inp, fsh, st) ==
    /\ Len(out) = Len(inp)
    /\ out[1] = inp[1]
    /\ out[Len(out)] = fsh[Len(fsh)]
    /\ \A i \in 1..Len(st) :
           IF IsNone(st[i]) THEN out[i + 1] = inp[i + 1]
           ELSE IsNearest(out[i + 1], st[i].den * inp[i + 1], st[i].num)

\* C5: a call with at least one stride < 1 and every non-None stride < 1 (None
\* entries allowed) succeeds, and the requested output shape is the expected
\* one.  Stated for the calls whose filter rank fits the input (rank =
\* spatial dimensions + 2, rank in 3..5).
C5_FractionalShape ==
    (/\ cv_pc = "returned"
     /\ SomeBelow1(strides)
     /\ ~SomeNotBelow1(strides)
     /\ Len(filter_shape) = Len(strides) + 2
     /\ Len(filter_shape) \in 3..5) =>
        /\ cv_res.err = "none"
        /\ IsExpectedShape(cv_res.ret_shape, inp_shape, filter_shape, strides)

\* the same without None entries, which the code does satisfy
FractionalShapeWithoutNone ==
    (/\ cv_pc = "returned"
     /\ SomeBelow1(strides)
     /\ ~SomeNotBelow1(strides)
     /\ ~HasNone(strides)
     /\ Len(filter_shape) = Len(strides) + 2
     /\ Len(filter_shape) \in 3..5) =>
        /\ cv_res.err = "none"
        /\ IsExpectedShape(cv_res.ret_shape, inp_shape, filter_shape, strides)

\* the call is in the fractional-stride path and every stride is a number
FractionalNumeric ==
    /\ cv_pc = "returned"
    /\ SomeBelow1(strides)
    /\ ~SomeAbove1(strides)
    /\ \A i \in 1..Len(strides) : ~IsNone(strides[i])

\* C6: in the fractional-stride path rank 3 and 4 invoke the 2D transposed
\* convolution, rank 5 the 3D one, and every other rank (r <= 2, r >= 6)
\* fails with the unsupported-rank error without invoking a primitive.
\* Stated for strides without None.
C6_RankDispatch ==
    FractionalNumeric =>
        LET r == Len(filter_shape)
        IN  /\ r \in {3, 4} => (cv_res.err = "none" /\ cv_res.op = "conv2d_transpose")
            /\ r = 5 => (cv_res.err = "none" /\ cv_res.op = "conv3d_transpose")
            /\ r \notin {3, 4, 5} =>
                   (cv_res.err = "UnsupportedRank" /\ cv_res.op = "none")

\* what the code does: every rank below 5 invokes the 2D primitive
RankDispatchBelowFive ==
    FractionalNumeric =>
        LET r == Len(filter_shape)
        IN  /\ r < 5 => (cv_res.err = "none" /\ cv_res.op = "conv2d_transpose")
            /\ r = 5 => (cv_res.err = "none" /\ cv_res.op = "conv3d_transpose")
            /\ r > 5 => (cv_res.err = "UnsupportedRank" /\ cv_res.op = "none")

\* the entry of the strides handed to the primitive that belongs to
\* strides[i]: after the leading 1, and after the singleton dimension for a
\* rank-3 filter
PassedStride(i) ==
    cv_res.strides[i + 1 + (IF Len(filter_shape) = 3 THEN 1 ELSE 0)]

InvokedTransposed ==
    /\ cv_pc = "returned"
    /\ cv_res.err = "none"
    /\ cv_res.op \in {"conv2d_transpose", "conv3d_transpose"}

\* C10: every stride s with 0 < s < 1 reaches the transposed-convolution
\* primitive as the integer nearest to 1 / s, for filters of rank 3, 4 and 5
\* (the 1D, 2D and 3D cases).
C10_RoundedReciprocal ==
    (InvokedTransposed /\ Len(filter_shape) \in 3..5) =>
        \A i \in 1..Len(strides) :
            Below1(strides[i]) =>
                IsNearest(PassedStride(i), strides[i].den, strides[i].num)

\* what the code does: the reciprocal is truncated
TruncatedReciprocal ==
    InvokedTransposed =>
        \A i \in 1..Len(strides) :
            Below1(strides[i]) =>
                /\ PassedStride(i) * strides[i].num <= strides[i].den
                /\ (PassedStride(i) + 1) * strides[i].num > strides[i].den

====
